---------------------------- MODULE Spec2Model ----------------------------
(***************************************************************************)
(* A model of dotastats/models.py: the tables of the match store, the      *)
(* freshness queries (get_refresh), the low-priority filter, the label     *)
(* mapping, the factories from_json_response and the sequence cursor.      *)
(*                                                                         *)
(* Time is a natural number (one unit per clock tick).  A DateTimeField    *)
(* declared auto_now=True is stamped with the clock at every save().       *)
(* An optional value (Python None / a value) is the empty sequence / a     *)
(* one-element sequence.                                                   *)
(***************************************************************************)
EXTENDS Integers, Sequences, FiniteSets, Bags, TLC

VARIABLES
    now,                      \* timezone.now()
    PLAYER_FRESHNESS,         \* settings.DOTA_PLAYER_REFRESH
    MATCH_FRESHNESS,          \* settings.DOTA_MATCH_REFRESH
    steamPlayer,              \* table SteamPlayer: last_refresh -> number of rows
    matchDetails,             \* table MatchDetails: match_id -> row
    matchPicksBans,           \* table MatchPicksBans: bag of rows
    matchDetailsPlayerEntry,  \* table MatchDetailsPlayerEntry: bag of rows
    matchHistoryQueue,        \* table MatchHistoryQueue: match_id -> row
    matchHistoryQueuePlayers, \* table MatchHistoryQueuePlayers: bag of rows
    matchSequenceNumber,      \* table MatchSequenceNumber: pk -> last_match_seq_num
    call,                     \* the most recent call: [op, arg, ret]
    calls,                    \* number of writing calls made so far, where a
                              \* specification bounds them
    enqueuedAt,               \* history: match_id of a queue entry -> clock value
                              \* when it was enqueued
    lastSet,                  \* history: argument of the latest set_last_match_seq_num
    pc,                       \* scan cycle: "idle" | "read" | "discovered"
    resume,                   \* scan cycle: the cursor value the scan resumed from
    batch,                    \* scan cycle: sequence numbers discovered by this scan
    discovered                \* history: every sequence number discovered so far

vars == <<now, PLAYER_FRESHNESS, MATCH_FRESHNESS, steamPlayer, matchDetails,
          matchPicksBans, matchDetailsPlayerEntry, matchHistoryQueue,
          matchHistoryQueuePlayers, matchSequenceNumber, call, calls,
          enqueuedAt, lastSet, pc, resume, batch, discovered>>

storeVars == <<matchDetails, matchPicksBans, matchDetailsPlayerEntry,
               matchHistoryQueue, matchHistoryQueuePlayers>>
cursorVars == <<matchSequenceNumber, lastSet, calls>>
scanVars == <<pc, resume, batch, discovered>>
configVars == <<PLAYER_FRESHNESS, MATCH_FRESHNESS>>

----------------------------------------------------------------------------
(* Bounds of the model. *)

MaxTime == 3        \* the clock runs from 0 to MaxTime
MaxTTL == 2         \* a configured freshness is one of 1..MaxTTL
MaxSaves == 3       \* SteamPlayer saves per behaviour
MaxCalls == 9       \* cursor calls counted per behaviour
MaxSeq == 5         \* sequence numbers are 0..MaxSeq

None == <<>>
Some(v) == <<v>>
NoCall == [op |-> "none", arg |-> None, ret |-> None]

Min(a, b) == IF a < b THEN a ELSE b

Times == 0..MaxTime

----------------------------------------------------------------------------
(* SteamPlayer.  Rows that share a last_refresh are interchangeable for    *)
(* get_refresh (the query reads no other column), so the table is kept as  *)
(* the number of rows per last_refresh value and a query result as the     *)
(* sequence of the last_refresh values of the rows it returns.             *)

RefreshLimit == 100

\* Table sizes the model starts from: an empty table, one row, and tables
\* just below, at and above the slice limit of get_refresh.
InitialRowCounts == {0, 1, 99, 100, 101}

RECURSIVE RowsUpTo(_, _)
\* The last_refresh values of the rows of table with last_refresh <= t, ascending.
RowsUpTo(table, t) ==
    IF t < 0 THEN <<>>
    ELSE RowsUpTo(table, t - 1) \o [i \in 1..table[t] |-> t]

\* QuerySet.order_by('last_refresh') on a table kept as counts.
OrderByLastRefresh(table) == RowsUpTo(table, MaxTime)

\* QuerySet.filter(last_refresh__lte=cutoff): the filter with the comparison
\* widened, as a slip in the lookup name would give.
FilterLastRefreshLte(table, cutoff) ==
    [t \in Times |-> IF t <= cutoff THEN table[t] ELSE 0]
\* QuerySet.filter(last_refresh__lt=cutoff)
FilterLastRefreshLt(table, cutoff) ==
    [t \in Times |-> IF t < cutoff THEN table[t] ELSE 0]

\* QuerySet[:n]
Slice(rows, n) == SubSeq(rows, 1, Min(n, Len(rows)))

\* SteamPlayer.get_refresh()
SteamPlayerGetRefresh ==
    Slice(OrderByLastRefresh(
              FilterLastRefreshLt(steamPlayer, now - PLAYER_FRESHNESS)),
          RefreshLimit)

\* SteamPlayer(...).save(): auto_now stamps last_refresh with the clock.  The
\* row is new (old = None) or replaces the row of the same steamid, whose
\* last_refresh was old[1].
SteamPlayerSave(table, old) ==
    LET removed == IF old = None THEN table
                   ELSE [table EXCEPT ![old[1]] = @ - 1]
    IN  [removed EXCEPT ![now] = @ + 1]

RECURSIVE CountRows(_, _)
CountRows(table, t) == IF t < 0 THEN 0 ELSE table[t] + CountRows(table, t - 1)
\* Number of rows of a table kept as counts.
RowCount(table) == CountRows(table, MaxTime)

SavePlayer(old) ==
    /\ calls < MaxSaves
    /\ old # None => steamPlayer[old[1]] > 0
    /\ steamPlayer' = SteamPlayerSave(steamPlayer, old)
    /\ call' = [op |-> "SteamPlayer.save", arg |-> old, ret |-> None]
    /\ calls' = calls + 1
    /\ UNCHANGED <<now, configVars, storeVars, matchSequenceNumber, lastSet,
                   enqueuedAt, scanVars>>

GetRefreshPlayers ==
    /\ call' = [op |-> "SteamPlayer.get_refresh", arg |-> None,
                ret |-> SteamPlayerGetRefresh]
    /\ UNCHANGED <<now, configVars, steamPlayer, storeVars, cursorVars,
                   enqueuedAt, scanVars>>

\* The clock advances; the value returned by the previous call is dropped.
Tick ==
    /\ now < MaxTime
    /\ now' = now + 1
    /\ call' = NoCall
    /\ UNCHANGED <<configVars, steamPlayer, storeVars, cursorVars, enqueuedAt,
                   scanVars>>

EmptyStore ==
    /\ matchDetails = <<>>
    /\ matchPicksBans = EmptyBag
    /\ matchDetailsPlayerEntry = EmptyBag
    /\ matchHistoryQueue = <<>>
    /\ matchHistoryQueuePlayers = EmptyBag
    /\ enqueuedAt = <<>>

EmptyCursor ==
    /\ matchSequenceNumber = <<>>
    /\ lastSet = None
    /\ calls = 0

IdleScan ==
    /\ pc = "idle"
    /\ resume = 0
    /\ batch = {}
    /\ discovered = {}

InitPlayer ==
    /\ now = 0
    /\ PLAYER_FRESHNESS \in 1..MaxTTL
    /\ MATCH_FRESHNESS = 1
    /\ \E n \in InitialRowCounts :
           steamPlayer = [t \in Times |-> IF t = 0 THEN n ELSE 0]
    /\ call = NoCall
    /\ EmptyStore /\ EmptyCursor /\ IdleScan

NextPlayer ==
    \/ \E old \in {None} \cup {Some(t) : t \in Times} : SavePlayer(old)
    \/ GetRefreshPlayers
    \/ Tick

SpecPlayer == InitPlayer /\ [][NextPlayer]_vars

\* Number of SteamPlayer rows that are stale, counted row group by row group.
StalePlayers ==
    RowCount([t \in Times |->
                 IF t + PLAYER_FRESHNESS < now THEN steamPlayer[t] ELSE 0])

Occurrences(rows, t) == Cardinality({i \in DOMAIN rows : rows[i] = t})

\* C1: the rows SteamPlayer.get_refresh returns are all stale (last_refresh
\* strictly older than now minus the player TTL), are ordered oldest first,
\* number min(100, stale rows), and are the oldest stale rows: a stale row left
\* out is no older than any row returned.  No fresh row is returned and the
\* result is empty when nothing is stale.
PlayersDueForRefresh ==
    call.op = "SteamPlayer.get_refresh" =>
        LET r == call.ret IN
        /\ \A i \in DOMAIN r : r[i] < now - PLAYER_FRESHNESS
        /\ \A i, j \in DOMAIN r : i < j => r[i] <= r[j]
        /\ Len(r) <= 100
        /\ Len(r) = Min(100, StalePlayers)
        /\ \A t \in Times : Occurrences(r, t) <= steamPlayer[t]
        /\ \A t \in Times :
              (t < now - PLAYER_FRESHNESS /\ Occurrences(r, t) < steamPlayer[t])
                  => \A i \in DOMAIN r : r[i] <= t
        /\ (StalePlayers = 0 => r = <<>>)

\* More than 100 rows of two different ages are stale and the result was cut
\* at 100 inside the younger group.
PlayersDueForRefreshCapped ==
    /\ call.op = "SteamPlayer.get_refresh"
    /\ StalePlayers > 100
    /\ Len(call.ret) = 100
    /\ call.ret[1] < call.ret[100]
    /\ \E t \in Times : t >= now - PLAYER_FRESHNESS /\ steamPlayer[t] > 0

----------------------------------------------------------------------------
(* MatchDetails: a function from match_id (the primary key) to the row.    *)

MaxMatch == 3       \* match ids are 1..MaxMatch

MatchIds == 1..MaxMatch

\* datetime.fromtimestamp(ts).replace(tzinfo=TIME_ZONE_SETTING)
FromTimestamp(ts) == [unix |-> ts, tzinfo |-> "TIME_ZONE_SETTING"]

\* A match-detail record of the upstream source.
MatchJson(id, lobby, humans, dur, radiant, dire, mode) ==
    [match_id |-> id, match_seq_num |-> id, season |-> 0, radiant_win |-> TRUE,
     duration |-> dur, start_time |-> 0, tower_status_radiant |-> radiant,
     tower_status_dire |-> dire, barracks_status_radiant |-> 63,
     barracks_status_dire |-> 0, cluster |-> 1, first_blood_time |-> 30,
     lobby_type |-> lobby, human_players |-> humans, leagueid |-> 0,
     positive_votes |-> 0, negative_votes |-> 0, game_mode |-> mode]

\* MatchDetails.from_json_response(json); last_refresh is unset until save().
MatchDetailsFromJson(json) ==
    [match_id |-> json.match_id,
     last_refresh |-> None,
     match_seq_num |-> json.match_seq_num,
     season |-> json.season,
     radiant_win |-> json.radiant_win,
     duration |-> json.duration,
     start_time |-> FromTimestamp(json.start_time),
     tower_status_radiant |-> json.tower_status_radiant,
     tower_status_dire |-> json.tower_status_dire,
     barracks_status_radiant |-> json.barracks_status_radiant,
     barracks_status_dire |-> json.barracks_status_dire,
     cluster |-> json.cluster,
     first_blood_time |-> json.first_blood_time,
     lobby_type |-> json.lobby_type,
     human_players |-> json.human_players,
     leagueid |-> json.leagueid,
     positive_votes |-> json.positive_votes,
     negative_votes |-> json.negative_votes,
     game_mode |-> json.game_mode]

\* save() that loses the row: nothing is written.
MatchDetailsSaveLost(table, row) == table
\* MatchDetails(...).save(): match_id is the primary key, so the row replaces
\* the row of the same match_id, if any; auto_now stamps last_refresh.
MatchDetailsSave(table, row) ==
    (row.match_id :> [row EXCEPT !.last_refresh = Some(now)]) @@ table

Rows(table) == {table[k] : k \in DOMAIN table}

\* The rows of MatchDetails.objects.filter(last_refresh__lt=cutoff)
StaleMatches(table, cutoff) ==
    {r \in Rows(table) : r.last_refresh[1] < cutoff}

\* The rows that order_by('last_refresh') may put first: the order among rows
\* of equal last_refresh is the database's choice.
NewestRows(rows) ==
    {r \in rows : \A o \in rows : r.last_refresh[1] >= o.last_refresh[1]}
FirstByLastRefresh(rows) ==
    {r \in rows : \A o \in rows : r.last_refresh[1] <= o.last_refresh[1]}

\* The values MatchDetails.get_refresh() may return: [0] of the ordered stale
\* rows, None on IndexError.
MatchDetailsGetRefresh ==
    LET stale == StaleMatches(matchDetails, now - MATCH_FRESHNESS)
    IN  IF stale = {} THEN {None}
        ELSE {Some(r) : r \in FirstByLastRefresh(stale)}

SaveMatch(json) ==
    /\ matchDetails' = MatchDetailsSave(matchDetails, MatchDetailsFromJson(json))
    /\ call' = [op |-> "MatchDetails.save", arg |-> Some(json.match_id),
                ret |-> None]
    /\ UNCHANGED <<now, configVars, steamPlayer, matchPicksBans,
                   matchDetailsPlayerEntry, matchHistoryQueue,
                   matchHistoryQueuePlayers, cursorVars, enqueuedAt, scanVars>>

GetRefreshMatch ==
    /\ \E r \in MatchDetailsGetRefresh :
           call' = [op |-> "MatchDetails.get_refresh", arg |-> None, ret |-> r]
    /\ UNCHANGED <<now, configVars, steamPlayer, storeVars, cursorVars,
                   enqueuedAt, scanVars>>

PlainMatchJsons == {MatchJson(id, 0, 10, 2400, 0, 1974, 1) : id \in MatchIds}

InitMatch ==
    /\ now = 0
    /\ PLAYER_FRESHNESS = 1
    /\ MATCH_FRESHNESS \in 1..MaxTTL
    /\ steamPlayer = [t \in Times |-> 0]
    /\ call = NoCall
    /\ EmptyStore /\ EmptyCursor /\ IdleScan

\* The initial state with both freshness windows set to one tick.
InitStore ==
    /\ InitMatch
    /\ MATCH_FRESHNESS = 1

NextMatch ==
    \/ \E json \in PlainMatchJsons : SaveMatch(json)
    \/ GetRefreshMatch
    \/ Tick

SpecMatch == InitMatch /\ [][NextMatch]_vars

SomeMatchStale ==
    \E m \in DOMAIN matchDetails :
        matchDetails[m].last_refresh[1] + MATCH_FRESHNESS < now

\* C2: MatchDetails.get_refresh returns at most one row; when some row is
\* older than now minus the match TTL it returns a stale row of the table
\* whose last_refresh is the minimum over all rows, and when no row is stale
\* it returns None.
NextMatchDueForRefresh ==
    call.op = "MatchDetails.get_refresh" =>
        /\ Len(call.ret) <= 1
        /\ SomeMatchStale =>
              /\ Len(call.ret) = 1
              /\ call.ret[1].match_id \in DOMAIN matchDetails
              /\ matchDetails[call.ret[1].match_id] = call.ret[1]
              /\ call.ret[1].last_refresh[1] + MATCH_FRESHNESS < now
              /\ \A m \in DOMAIN matchDetails :
                    call.ret[1].last_refresh[1] <= matchDetails[m].last_refresh[1]
        /\ ~SomeMatchStale => call.ret = None

\* A stale row is returned while the table also holds a younger stale row and
\* a fresh row.
NextMatchDueForRefreshOldest ==
    /\ call.op = "MatchDetails.get_refresh"
    /\ call.ret # None
    /\ \E m \in DOMAIN matchDetails :
          /\ matchDetails[m].last_refresh[1] + MATCH_FRESHNESS < now
          /\ matchDetails[m].last_refresh[1] > call.ret[1].last_refresh[1]
    /\ \E m \in DOMAIN matchDetails :
          matchDetails[m].last_refresh[1] + MATCH_FRESHNESS >= now

----------------------------------------------------------------------------
(* MatchDetails.exclude_low_priority *)

\* Q(duration__lte=480) in place of Q(duration__lt=480).
LowPriorityLte(r) ==
    \/ r.lobby_type = 4
    \/ r.human_players < 10
    \/ r.duration <= 480
    \/ (r.tower_status_dire = 2047 /\ r.tower_status_radiant = 2047)
\* Q(lobby_type=4) | Q(human_players__lt=10) | Q(duration__lt=480)
\*   | (Q(tower_status_dire=2047) & Q(tower_status_radiant=2047))
LowPriority(r) ==
    \/ r.lobby_type = 4
    \/ r.human_players < 10
    \/ r.duration < 480
    \/ (r.tower_status_dire = 2047 /\ r.tower_status_radiant = 2047)

\* MatchDetails.objects.exclude(q): the rows q does not match.
MatchDetailsExcludeLowPriority == {r \in Rows(matchDetails) : ~LowPriority(r)}

ExcludeLowPriority ==
    /\ call' = [op |-> "MatchDetails.exclude_low_priority", arg |-> None,
                ret |-> MatchDetailsExcludeLowPriority]
    /\ UNCHANGED <<now, configVars, steamPlayer, storeVars, cursorVars,
                   enqueuedAt, scanVars>>

\* Match records on both sides of every threshold of the filter.
FilterMatchJsons ==
    {MatchJson(id, lobby, humans, dur, radiant, dire, 1) :
        id \in 1..2, lobby \in {0, 4}, humans \in {9, 10},
        dur \in {479, 480, 481}, radiant \in {2046, 2047}, dire \in {0, 2047}}

NextFilter ==
    \/ \E json \in FilterMatchJsons : SaveMatch(json)
    \/ ExcludeLowPriority

SpecFilter == InitStore /\ [][NextFilter]_vars

----------------------------------------------------------------------------
(* get_game_type *)

Digit == <<"0", "1", "2", "3", "4", "5", "6", "7", "8", "9">>

RECURSIVE Str(_)
\* Python's str(n) of an integer: its decimal digits, "-" first when negative.
Str(n) ==
    IF n < 0 THEN "-" \o Str(0 - n)
    ELSE IF n < 10 THEN Digit[n + 1]
    ELSE Str(n \div 10) \o Digit[(n % 10) + 1]

\* get_game_type with the labels of codes 2 and 8 exchanged.
get_game_type_swapped(game_mode) ==
    IF game_mode = 2 THEN "Reverse Captain's Mode"
    ELSE IF game_mode = 8 THEN "Captain's Mode"
    ELSE Str(game_mode)
\* get_game_type(game_mode)
get_game_type(game_mode) ==
    IF game_mode = 1 THEN "All Pick"
    ELSE IF game_mode = 2 THEN "Captain's Mode"
    ELSE IF game_mode = 3 THEN "Random Draft"
    ELSE IF game_mode = 4 THEN "Single Draft"
    ELSE IF game_mode = 5 THEN "All Random"
    ELSE IF game_mode = 6 THEN "Death Mode"
    ELSE IF game_mode = 7 THEN "Diretide"
    ELSE IF game_mode = 8 THEN "Reverse Captain's Mode"
    ELSE IF game_mode = 9 THEN "The Greeviling"
    ELSE IF game_mode = 10 THEN "Tutorial"
    ELSE IF game_mode = 11 THEN "Mid Only"
    ELSE IF game_mode = 12 THEN "Least Played"
    ELSE IF game_mode = 13 THEN "New Player Pool"
    ELSE Str(game_mode)

\* MatchDetails.get_game_type(self)
MatchDetailsGetGameType(self) == get_game_type(self.game_mode)

GetGameType(m) ==
    /\ m \in DOMAIN matchDetails
    /\ call' = [op |-> "MatchDetails.get_game_type", arg |-> Some(m),
                ret |-> MatchDetailsGetGameType(matchDetails[m])]
    /\ UNCHANGED <<now, configVars, steamPlayer, storeVars, cursorVars,
                   enqueuedAt, scanVars>>

\* Game-mode codes: the thirteen known ones, their neighbours, a negative
\* code and codes of two and three digits.
GameModes == (-1..15) \cup {-20, 40, 99, 100, 2047}

LabelMatchJsons ==
    {MatchJson(id, 0, 10, 2400, 0, 1974, mode) : id \in 1..2, mode \in GameModes}

NextLabel ==
    \/ \E json \in LabelMatchJsons : SaveMatch(json)
    \/ \E m \in 1..2 : GetGameType(m)

SpecLabel == InitStore /\ [][NextLabel]_vars

\* The labels of the thirteen known codes, in code order.
GameTypeLabels ==
    <<"All Pick", "Captain's Mode", "Random Draft", "Single Draft",
      "All Random", "Death Mode", "Diretide", "Reverse Captain's Mode",
      "The Greeviling", "Tutorial", "Mid Only", "Least Played",
      "New Player Pool">>

\* The decimal numerals of the other codes of GameModes.
Numerals ==
    (-20 :> "-20") @@ (-1 :> "-1") @@ (0 :> "0") @@ (14 :> "14") @@
    (15 :> "15") @@ (40 :> "40") @@ (99 :> "99") @@ (100 :> "100") @@
    (2047 :> "2047")

\* C8: get_game_type maps codes 1..13 to their thirteen labels (2 to
\* "Captain's Mode") and every other code to its decimal numeral (99 to
\* "99"); it yields a label for every code.
GameTypeLabel ==
    call.op = "MatchDetails.get_game_type" =>
        LET code == matchDetails[call.arg[1]].game_mode IN
        /\ code \in 1..13 => call.ret = GameTypeLabels[code]
        /\ code \notin 1..13 => call.ret = Numerals[code]
        /\ code = 2 => call.ret = "Captain's Mode"
        /\ code = 99 => call.ret = "99"

\* The label of a match of game mode 99 was asked for while the other stored
\* match has game mode 2.
GameTypeLabelUnknown ==
    /\ call.op = "MatchDetails.get_game_type"
    /\ matchDetails[call.arg[1]].game_mode = 99
    /\ call.ret = "99"
    /\ \E m \in DOMAIN matchDetails : matchDetails[m].game_mode = 2

----------------------------------------------------------------------------
(* MatchSequenceNumber: a function from pk to last_match_seq_num. *)

SeqNums == 0..MaxSeq

\* The primary key an insert without an explicit pk is given.
AutoPk(table) ==
    IF DOMAIN table = {} THEN 1
    ELSE 1 + CHOOSE k \in DOMAIN table : \A o \in DOMAIN table : o <= k

\* objects.get_or_create(pk=pk)[0]: the row of that pk, created with
\* last_match_seq_num at its default 0 when there is none.
GetOrCreate(table, pk) ==
    IF pk \in DOMAIN table THEN table ELSE (pk :> 0) @@ table

\* MatchSequenceNumber(last_match_seq_num=v).save() with the pk left out: every
\* call inserts a new row.
MatchSequenceNumberSaveNoPk(table, pk, v) == (AutoPk(table) :> v) @@ table
\* MatchSequenceNumber(pk=pk, last_match_seq_num=v).save(): the row of that pk
\* is written, whether or not it existed.
MatchSequenceNumberSave(table, pk, v) == (pk :> v) @@ table

\* MatchSequenceNumber.get_last_match_seq_num(): the table after the call and
\* the value returned.
get_last_match_seq_num(table) ==
    LET after == GetOrCreate(table, 1)
    IN  [table |-> after, ret |-> after[1]]

\* MatchSequenceNumber.set_last_match_seq_num(last_seq_num): the table after
\* the call.
set_last_match_seq_num(table, last_seq_num) ==
    MatchSequenceNumberSave(table, 1, last_seq_num)

GetLastMatchSeqNum ==
    /\ calls < MaxCalls
    /\ LET r == get_last_match_seq_num(matchSequenceNumber) IN
       /\ matchSequenceNumber' = r.table
       /\ call' = [op |-> "get_last_match_seq_num", arg |-> None, ret |-> r.ret]
    /\ calls' = calls + 1
    /\ UNCHANGED <<now, configVars, steamPlayer, storeVars, lastSet,
                   enqueuedAt, scanVars>>

SetLastMatchSeqNum(v) ==
    /\ calls < MaxCalls
    /\ matchSequenceNumber' = set_last_match_seq_num(matchSequenceNumber, v)
    /\ call' = [op |-> "set_last_match_seq_num", arg |-> v, ret |-> None]
    /\ lastSet' = Some(v)
    /\ calls' = calls + 1
    /\ UNCHANGED <<now, configVars, steamPlayer, storeVars, enqueuedAt,
                   scanVars>>

NextCursor ==
    \/ GetLastMatchSeqNum
    \/ \E v \in SeqNums : SetLastMatchSeqNum(v)

SpecCursor == InitStore /\ [][NextCursor]_vars

\* C7: the cursor table never holds more than one row; once any get or set
\* call has been made it holds exactly the row of primary key 1, which every
\* call reads or writes; a get before any set returns 0 and a get after
\* set(v), with no set in between, returns v.
CursorIsSingleton ==
    /\ Cardinality(DOMAIN matchSequenceNumber) <= 1
    /\ calls > 0 => DOMAIN matchSequenceNumber = {1}
    /\ call.op = "get_last_match_seq_num" =>
          /\ call.ret = matchSequenceNumber[1]
          /\ lastSet = None => call.ret = 0
          /\ lastSet # None => call.ret = lastSet[1]
    /\ call.op = "set_last_match_seq_num" =>
          matchSequenceNumber[1] = call.arg

\* A get returns the non-zero value of the latest of two different sets.
CursorReadBack ==
    /\ call.op = "get_last_match_seq_num"
    /\ call.ret > 0
    /\ lastSet = Some(call.ret)
    /\ calls >= 3

----------------------------------------------------------------------------
(* The scan cycle of the scheduler: read the cursor, discover the matches   *)
(* the upstream source lists from that sequence number on, then store the   *)
(* sequence number of a discovered match as the new cursor.                 *)

\* The scan reads its resume point.
ScanRead ==
    /\ pc = "idle"
    /\ LET r == get_last_match_seq_num(matchSequenceNumber) IN
       /\ matchSequenceNumber' = r.table
       /\ resume' = r.ret
       /\ call' = [op |-> "get_last_match_seq_num", arg |-> None, ret |-> r.ret]
    /\ pc' = "read"
    /\ UNCHANGED <<now, configVars, steamPlayer, storeVars, lastSet, calls,
                   enqueuedAt, batch, discovered>>

\* The upstream source lists the matches of sequence numbers found, all at or
\* after the resume point.
ScanDiscover(found) ==
    /\ pc = "read"
    /\ found # {}
    /\ \A n \in found : n >= resume /\ n >= 1
    /\ batch' = found
    /\ discovered' = discovered \cup found
    /\ pc' = "discovered"
    /\ call' = NoCall
    /\ UNCHANGED <<now, configVars, steamPlayer, storeVars, cursorVars,
                   enqueuedAt, resume>>

\* The upstream source lists nothing new.
ScanNothing ==
    /\ pc = "read"
    /\ pc' = "idle"
    /\ call' = NoCall
    /\ UNCHANGED <<now, configVars, steamPlayer, storeVars, cursorVars,
                   enqueuedAt, resume, batch, discovered>>

\* The scan stores the sequence number of a discovered match.
ScanAdvance(S) ==
    /\ pc = "discovered"
    /\ S \in batch
    /\ matchSequenceNumber' = set_last_match_seq_num(matchSequenceNumber, S)
    /\ call' = [op |-> "set_last_match_seq_num", arg |-> S, ret |-> None]
    /\ lastSet' = Some(S)
    /\ pc' = "idle"
    /\ batch' = {}
    /\ UNCHANGED <<now, configVars, steamPlayer, storeVars, calls, enqueuedAt,
                   resume, discovered>>

NextScan ==
    \/ ScanRead
    \/ \E found \in SUBSET (1..MaxSeq) : ScanDiscover(found)
    \/ ScanNothing
    \/ \E S \in 1..MaxSeq : ScanAdvance(S)

SpecScan == InitStore /\ [][NextScan]_vars

\* C5: the resume point a scan reads is strictly greater than every sequence
\* number discovered before it (so no match is discovered twice), and the
\* stored cursor is never below the latest resume point.
ResumeAboveDiscovered ==
    /\ pc = "read" => \A s \in discovered : resume > s
    /\ 1 \in DOMAIN matchSequenceNumber => matchSequenceNumber[1] >= resume

----------------------------------------------------------------------------
(* The discovery queue and the children of a match.  A table whose primary  *)
(* key is the automatic id is a bag of rows: two rows of equal columns are  *)
(* two copies.  Heroes, Items and SteamPlayer rows referenced by foreign    *)
(* keys are reference data and are not checked here.                        *)

\* A participant record of the upstream source.  The columns after
\* leaver_status are copied to the row unchanged.
PlayerJson(account, slot, hero, leaver) ==
    [account_id |-> account, player_slot |-> slot, hero_id |-> hero,
     leaver_status |-> leaver,
     item_0 |-> 1, item_1 |-> 0, item_2 |-> 0, item_3 |-> 0, item_4 |-> 0,
     item_5 |-> 0, kills |-> 3, deaths |-> 1, assists |-> 4, gold |-> 500,
     last_hits |-> 80, denies |-> 2, gold_per_min |-> 300, xp_per_min |-> 350,
     gold_spent |-> 9000, hero_damage |-> 7000, tower_damage |-> 400,
     hero_healing |-> 0, level |-> 16, ability_upgrades |-> None,
     additional_units |-> None]

\* steamapi.convertAccountNumbertoSteam64: None stays None; an account number
\* becomes the 64-bit identifier, kept as the account number it is offset
\* from (the offset itself is beyond the integers TLC represents).
ConvertAccountNumbertoSteam64(account) ==
    IF account = None THEN None ELSE Some([steam64_of |-> account[1]])

\* MatchHistoryQueue.from_json_response(json)
MatchHistoryQueueFromJson(json) ==
    [match_id |-> json.match_id,
     last_refresh |-> None,
     match_seq_num |-> json.match_seq_num,
     start_time |-> FromTimestamp(json.start_time),
     lobby_type |-> json.lobby_type]

\* MatchHistoryQueuePlayers.from_json_response(match_history_queue, json)
MatchHistoryQueuePlayersFromJson(match_history_queue, json) ==
    Some([match_history_queue |-> match_history_queue.match_id,
          account_id |-> ConvertAccountNumbertoSteam64(json.account_id),
          player_slot |-> json.player_slot,
          hero_id |-> json.hero_id,
          is_bot |-> (json.account_id = None)])

\* MatchPicksBans.from_json_response(match_details, json)
MatchPicksBansFromJson(match_details, json) ==
    Some([match_details |-> match_details.match_id,
          is_pick |-> json.is_pick,
          hero_id |-> json.hero_id,
          team |-> json.team,
          order |-> json.order])

\* MatchDetailsPlayerEntry.from_json_response(match_details, json)
MatchDetailsPlayerEntryFromJson(match_details, json) ==
    IF json.hero_id = 0 THEN None
    ELSE Some([match_details |-> match_details.match_id,
               account_id |-> ConvertAccountNumbertoSteam64(json.account_id),
               player_slot |-> json.player_slot,
               hero_id |-> json.hero_id,
               item_0 |-> json.item_0, item_1 |-> json.item_1,
               item_2 |-> json.item_2, item_3 |-> json.item_3,
               item_4 |-> json.item_4, item_5 |-> json.item_5,
               kills |-> json.kills, deaths |-> json.deaths,
               assists |-> json.assists,
               leaver_status |-> json.leaver_status,
               gold |-> json.gold, last_hits |-> json.last_hits,
               denies |-> json.denies, gold_per_min |-> json.gold_per_min,
               xp_per_min |-> json.xp_per_min, gold_spent |-> json.gold_spent,
               hero_damage |-> json.hero_damage,
               tower_damage |-> json.tower_damage,
               hero_healing |-> json.hero_healing, level |-> json.level,
               ability_upgrades |-> json.ability_upgrades,
               additional_units |-> json.additional_units,
               is_bot |-> (json.account_id = None \/ json.leaver_status = None)])

\* Meta.unique_together of MatchPicksBans
PickBanKey == {"match_details", "hero_id", "order"}
\* Meta.unique_together of MatchDetailsPlayerEntry
PlayerEntryKey == {"match_details", "hero_id", "player_slot"}
\* Meta.unique_together of MatchHistoryQueuePlayers
QueuePlayerKey == {"match_history_queue", "hero_id", "player_slot"}

\* The columns of row named by a unique_together.
KeyOf(row, unique_together) == [c \in unique_together |-> row[c]]

\* The rows of table that hold the key of row.
Conflicts(table, row, unique_together) ==
    {o \in BagToSet(table) :
        KeyOf(o, unique_together) = KeyOf(row, unique_together)}

\* save() of a new row of a table without its unique_together.
InsertAlways(table, row, unique_together) == table (+) SetToBag({row})
\* save() of a new row of a table with unique_together: the insert of a row
\* whose key is taken raises IntegrityError and the table is as before.
InsertUnique(table, row, unique_together) ==
    IF Conflicts(table, row, unique_together) # {} THEN table
    ELSE table (+) SetToBag({row})

\* The row of the taken key is overwritten with the new columns.
Upsert(table, row, unique_together) ==
    LET kept == BagToSet(table) \ Conflicts(table, row, unique_together)
    IN  [o \in kept |-> CopiesIn(o, table)] (+) SetToBag({row})

\* What the caller makes of a conflict: skip the row or overwrite the old one.
Policies == {"skip", "upsert"}
Store(table, row, unique_together, policy) ==
    IF policy = "upsert" THEN Upsert(table, row, unique_together)
    ELSE InsertUnique(table, row, unique_together)

\* The rows the factories yielded, None dropped.
Yielded(built) == {built[i][1] : i \in {j \in DOMAIN built : built[j] # None}}

RECURSIVE StoreQueuePlayers(_, _, _)
StoreQueuePlayers(table, built, policy) ==
    IF built = <<>> THEN table
    ELSE IF Head(built) = None THEN StoreQueuePlayers(table, Tail(built), policy)
    ELSE StoreQueuePlayers(Store(table, Head(built)[1], QueuePlayerKey, policy),
                           Tail(built), policy)

RECURSIVE StorePicksBans(_, _, _)
StorePicksBans(table, built, policy) ==
    IF built = <<>> THEN table
    ELSE IF Head(built) = None THEN StorePicksBans(table, Tail(built), policy)
    ELSE StorePicksBans(Store(table, Head(built)[1], PickBanKey, policy),
                        Tail(built), policy)

RECURSIVE StorePlayerEntries(_, _, _)
StorePlayerEntries(table, built, policy) ==
    IF built = <<>> THEN table
    ELSE IF Head(built) = None THEN StorePlayerEntries(table, Tail(built), policy)
    ELSE StorePlayerEntries(Store(table, Head(built)[1], PlayerEntryKey, policy),
                            Tail(built), policy)

\* MatchHistoryQueue(...).save(): match_id is the primary key; auto_now stamps
\* last_refresh, here left at the start of time.
MatchHistoryQueueSaveUnstamped(table, row) ==
    (row.match_id :> [row EXCEPT !.last_refresh = Some(0)]) @@ table
\* MatchHistoryQueue(...).save(): match_id is the primary key; auto_now stamps
\* last_refresh.
MatchHistoryQueueSave(table, row) ==
    (row.match_id :> [row EXCEPT !.last_refresh = Some(now)]) @@ table

\* MatchHistoryQueue row.delete(): the row goes and, by the foreign key of
\* MatchHistoryQueuePlayers, so do its participants.
QueueWithout(table, id) == [k \in DOMAIN table \ {id} |-> table[k]]
QueuePlayersWithout(table, id) ==
    [o \in {r \in BagToSet(table) : r.match_history_queue # id} |->
        CopiesIn(o, table)]

\* The queue entries a FIFO drain may take next: those of the oldest
\* last_refresh.
OldestQueued(table) ==
    {k \in DOMAIN table :
        \A o \in DOMAIN table :
            table[k].last_refresh[1] <= table[o].last_refresh[1]}

\* A match-summary record of the upstream source.
SummaryJson(id, roster) ==
    [match_id |-> id, match_seq_num |-> id, start_time |-> 0, lobby_type |-> 0,
     players |-> roster]

\* A pick or ban record of the upstream source.
PickBanJson(pick, hero, side, position) ==
    [is_pick |-> pick, hero_id |-> hero, team |-> side, order |-> position]

\* A match-detail record with its draft and its participants.
DetailJson(id, draft, roster) ==
    [picks_bans |-> draft, players |-> roster]
        @@ MatchJson(id, 0, 10, 2400, 0, 1974, 2)

\* enqueueDiscovered(matchSummary): the queue entry of a match not seen before
\* and one participant per row the factory yields.
EnqueueDiscovered(summary) ==
    LET entry == MatchHistoryQueueFromJson(summary)
        built == [i \in DOMAIN summary.players |->
                     MatchHistoryQueuePlayersFromJson(entry, summary.players[i])]
    IN  /\ summary.match_id \notin DOMAIN matchHistoryQueue
        /\ summary.match_id \notin DOMAIN matchDetails
        /\ matchHistoryQueue' = MatchHistoryQueueSave(matchHistoryQueue, entry)
        /\ matchHistoryQueuePlayers' =
               StoreQueuePlayers(matchHistoryQueuePlayers, built, "skip")
        /\ enqueuedAt' = (summary.match_id :> now) @@ enqueuedAt
        /\ call' = [op |-> "enqueueDiscovered", arg |-> summary.match_id,
                    ret |-> Yielded(built)]
        /\ UNCHANGED <<now, configVars, steamPlayer, matchDetails,
                       matchPicksBans, matchDetailsPlayerEntry, cursorVars,
                       scanVars>>

\* The Match row, the Pick/Ban rows and the Player Match Entry rows of detail
\* are the ones stored.
AlreadyStored(detail) ==
    LET md == MatchDetailsFromJson(detail)
        id == detail.match_id
    IN  /\ id \in DOMAIN matchDetails
        /\ [matchDetails[id] EXCEPT !.last_refresh = None] = md
        /\ {r \in BagToSet(matchPicksBans) : r.match_details = id} =
               Yielded([i \in DOMAIN detail.picks_bans |->
                           MatchPicksBansFromJson(md, detail.picks_bans[i])])
        /\ {r \in BagToSet(matchDetailsPlayerEntry) : r.match_details = id} =
               Yielded([i \in DOMAIN detail.players |->
                           MatchDetailsPlayerEntryFromJson(md, detail.players[i])])

\* The writes of commitMatchDetails: the Match row is saved, then every
\* Pick/Ban and every Player Match Entry the factories yield.
CommitWrites(detail, policy) ==
    LET md == MatchDetailsFromJson(detail)
        draft == [i \in DOMAIN detail.picks_bans |->
                     MatchPicksBansFromJson(md, detail.picks_bans[i])]
        entries == [i \in DOMAIN detail.players |->
                       MatchDetailsPlayerEntryFromJson(md, detail.players[i])]
    IN  /\ matchDetails' = MatchDetailsSave(matchDetails, md)
        /\ matchPicksBans' = StorePicksBans(matchPicksBans, draft, policy)
        /\ matchDetailsPlayerEntry' =
               StorePlayerEntries(matchDetailsPlayerEntry, entries, policy)
        /\ call' = [op |-> "commitMatchDetails", arg |-> detail.match_id,
                    ret |-> Yielded(entries), retry |-> AlreadyStored(detail),
                    previous |-> IF detail.match_id \in DOMAIN matchDetails
                                 THEN matchDetails[detail.match_id].last_refresh
                                 ELSE None,
                    entry |-> IF detail.match_id \in DOMAIN matchHistoryQueue
                              THEN Some([row |-> matchHistoryQueue[detail.match_id],
                                         enqueued |-> enqueuedAt[detail.match_id]])
                              ELSE None]

\* The drain takes the oldest queue entry, its details are fetched and
\* committed, and the entry leaves the queue.
DrainSucceeds(detail, policy) ==
    /\ detail.match_id \in OldestQueued(matchHistoryQueue)
    /\ CommitWrites(detail, policy)
    /\ matchHistoryQueue' = QueueWithout(matchHistoryQueue, detail.match_id)
    /\ matchHistoryQueuePlayers' =
           QueuePlayersWithout(matchHistoryQueuePlayers, detail.match_id)
    /\ enqueuedAt' = QueueWithout(enqueuedAt, detail.match_id)
    /\ UNCHANGED <<now, configVars, steamPlayer, cursorVars, scanVars>>

\* The drain takes the oldest queue entry and the fetch of its details fails.
DrainFails(id) ==
    /\ id \in OldestQueued(matchHistoryQueue)
    /\ call' = [op |-> "drainFailed", arg |-> id, ret |-> None,
                entry |-> Some([row |-> matchHistoryQueue[id],
                                enqueued |-> enqueuedAt[id]])]
    /\ UNCHANGED <<now, configVars, steamPlayer, storeVars, cursorVars,
                   enqueuedAt, scanVars>>

\* The details of a stored match are fetched and committed again (a refresh,
\* or the retry of a commit).
RecommitMatchDetails(detail, policy) ==
    /\ detail.match_id \in DOMAIN matchDetails
    /\ CommitWrites(detail, policy)
    /\ UNCHANGED <<now, configVars, steamPlayer, matchHistoryQueue,
                   matchHistoryQueuePlayers, cursorVars, enqueuedAt, scanVars>>

----------------------------------------------------------------------------
(* Commits: two matches whose rosters and drafts vary. *)

\* Rosters: slot 0 holds a human on hero 1; slot 128 is not reported, holds a
\* bot on hero 2, or is empty (hero 0).
Rosters ==
    LET radiant == PlayerJson(Some(7), 0, 1, Some(0))
        dire == {PlayerJson(None, 128, 2, None), PlayerJson(None, 128, 0, None)}
    IN  {<<radiant>>} \cup {<<radiant, d>> : d \in dire}

Drafts == {<<>>, <<PickBanJson(TRUE, 1, 0, 0)>>}

CommitSummaries == {SummaryJson(id, roster) : id \in 1..2, roster \in Rosters}
CommitDetails ==
    {DetailJson(id, draft, roster) :
        id \in 1..2, draft \in Drafts, roster \in Rosters}

NextCommit ==
    \/ \E summary \in CommitSummaries : EnqueueDiscovered(summary)
    \/ \E detail \in CommitDetails, policy \in Policies :
          DrainSucceeds(detail, policy)
    \/ \E id \in 1..2 : DrainFails(id)
    \/ \E detail \in CommitDetails, policy \in Policies :
          RecommitMatchDetails(detail, policy)
    \/ Tick

SpecCommit == InitStore /\ [][NextCommit]_vars

\* C3: a participant record whose hero_id is 0 yields no row on either
\* construction path, and no stored Player Match Entry and no stored Discovery
\* Queue Participant has hero id 0.
HeroZeroNeverStored ==
    /\ call.op \in {"enqueueDiscovered", "commitMatchDetails"} =>
          \A r \in call.ret : r.hero_id # 0
    /\ \A r \in BagToSet(matchDetailsPlayerEntry) : r.hero_id # 0
    /\ \A r \in BagToSet(matchHistoryQueuePlayers) : r.hero_id # 0

\* No two rows of a child table share their unique key, and no row has a copy.
NoDuplicates(table, unique_together) ==
    \A a, b \in BagToSet(table) :
        /\ CopiesIn(a, table) = 1
        /\ KeyOf(a, unique_together) = KeyOf(b, unique_together) => a = b

\* The step commits, for a stored match, the details already stored.
CommitsAgain ==
    /\ call'.op = "commitMatchDetails"
    /\ call'.retry
    /\ call'.entry = None

\* C4 as amended: committing the stored details of a match again leaves one
\* Match row for the id, at most one Pick/Ban per (match, hero, order) and at
\* most one Player Match Entry per (match, hero, slot); the state after it is
\* the state before it except for the last_refresh of the Match row, which is
\* the time of the second save.
SecondCommitRestampsOnly ==
    [][CommitsAgain =>
          /\ DOMAIN matchDetails' = DOMAIN matchDetails
          /\ matchDetails' =
                 [matchDetails EXCEPT ![call'.arg].last_refresh = Some(now)]
          /\ matchPicksBans' = matchPicksBans
          /\ matchDetailsPlayerEntry' = matchDetailsPlayerEntry
          /\ NoDuplicates(matchPicksBans', PickBanKey)
          /\ NoDuplicates(matchDetailsPlayerEntry', PlayerEntryKey)
          /\ UNCHANGED <<matchHistoryQueue, matchHistoryQueuePlayers>>]_vars

\* C4: committing the stored details of a match again leaves the store in the
\* state the first commit left it in.
SecondCommitChangesNothing ==
    [][CommitsAgain => UNCHANGED storeVars]_vars

\* A match with a Pick/Ban and a Player Match Entry was committed a second
\* time, later than the first.
SecondCommitDone ==
    /\ call.op = "commitMatchDetails"
    /\ call.retry
    /\ call.entry = None
    /\ \E r \in BagToSet(matchPicksBans) : r.match_details = call.arg
    /\ \E r \in BagToSet(matchDetailsPlayerEntry) : r.match_details = call.arg
    /\ matchDetails[call.arg].last_refresh = Some(now)
    /\ call.previous # None
    /\ call.previous[1] < now

----------------------------------------------------------------------------
(* The queue: matches 1..MaxMatch of one roster and one draft. *)

QueueRoster == <<PlayerJson(Some(7), 0, 1, Some(0))>>

QueueSummaries == {SummaryJson(id, QueueRoster) : id \in MatchIds}
QueueDetails ==
    {DetailJson(id, <<PickBanJson(TRUE, 1, 0, 0)>>, QueueRoster) : id \in MatchIds}

NextQueue ==
    \/ \E summary \in QueueSummaries : EnqueueDiscovered(summary)
    \/ \E detail \in QueueDetails : DrainSucceeds(detail, "skip")
    \/ \E id \in MatchIds : DrainFails(id)
    \/ \E detail \in QueueDetails : RecommitMatchDetails(detail, "upsert")
    \/ Tick

SpecQueue == InitStore /\ [][NextQueue]_vars

\* The latest call was a drain, which took the queue entry call.entry.
Drained ==
    /\ call.op \in {"commitMatchDetails", "drainFailed"}
    /\ call.entry # None

InQueue(m) == m \in DOMAIN matchHistoryQueue
Detailed(m) == m \in DOMAIN matchDetails

=============================================================================
